---- MODULE Spec2Model ----
(***************************************************************************)
(* domo_query.Connection (src/domo_query/__init__.py): a lazy client of    *)
(* the DOMO REST API.  One Connection object.  Used from one thread, each *)
(* public operation (the login property, the tables property, find_table,  *)
(* query) is one action; the HTTP requests it issues are recorded, with    *)
(* the state it started from, in the history variable `call`.  The remote  *)
(* service is the environment: it holds the dataset catalog, issues        *)
(* tokens, answers queries, and may fail any request.  Used from several   *)
(* threads, login and tables are run statement by statement (SpecRace,     *)
(* SpecList).                                                              *)
(***************************************************************************)
EXTENDS Integers, Sequences, FiniteSets, TLC

VARIABLES
    _login,             \* Connection._login: the cached header, a dict
    _tables,            \* Connection._tables: the cached list of datasets
    _last_id_or_name,   \* Connection._last_id_or_name: <<>> for "", <<t>> for table t
    remote,             \* the datasets the remote service holds now
    issued,             \* number of tokens the remote service has issued
    listed,             \* the tables property has returned at least once
    call,               \* the most recent operation: inputs, outcome, requests
    response,           \* the body the service answers a query execution with
    data,               \* the list the last query returned
    threads             \* threads inside login or tables: position and locals

vars == <<_login, _tables, _last_id_or_name, remote, issued, listed, call,
          response, data, threads>>

-----------------------------------------------------------------------------
(* Bounds of the model *)

MaxCat == 2         \* longest hand-sized remote catalog
MaxListFail == 4    \* a listing request numbered 1..MaxListFail may fail
MaxIssued == 3      \* the token counter saturates here
MaxCols == 2        \* most columns, and most cells of a row, of a response
MaxRows == 2        \* most rows of a response
MaxThreads == 2     \* threads that share one Connection

(* Program constants *)

Limit == 50
DefaultSql == "select * from table"
AcceptJson == "application/json"

Min(a, b) == IF a < b THEN a ELSE b

-----------------------------------------------------------------------------
(* Values *)

\* A dict of HTTP headers is a set of <<key, value>> pairs; dict() is {}.
NoHeader == {}

\* dict(Authorization = f"bearer {token}")
BearerHeader(token) == {<<"Authorization", "bearer " \o token>>}

\* d[k] = v on a dict
SetItem(d, k, v) == {p \in d : p[1] # k} \cup {<<k, v>>}

\* _last_id_or_name: "" (falsy) is <<>>, a table dict (truthy) is <<table>>
NoTable == <<>>

Dataset(i, n) == [id |-> i, name |-> n]

\* The strings a caller passes as id_or_name; "" is the default argument.
Strs == {"", "a", "b", "c"}

\* Datasets a caller can name: "a" is the id of one and the name of
\* another, and one has the empty name.
SmallDatasets == {Dataset("a", "b"), Dataset("c", "a"), Dataset("d", "")}

RECURSIVE SeqsUpTo(_, _)
SeqsUpTo(S, n) ==
    IF n = 0 THEN {<<>>}
    ELSE LET shorter == SeqsUpTo(S, n - 1)
         IN  shorter \cup {Append(s, x) : s \in shorter, x \in S}

\* Catalogs for find_table and query: at most MaxCat datasets, one page,
\* each dataset of the domain listed once.
SmallCatalogs ==
    {c \in SeqsUpTo(SmallDatasets, MaxCat) :
        \A i, j \in 1..Len(c) : c[i] = c[j] => i = j}

\* The i-th dataset of a large domain: distinct ids and names, with one
\* dataset a caller can name on the first page and one on the second.
BigDataset(i) ==
    IF i = 1 THEN Dataset("a", "b")
    ELSE IF i = Limit + 1 THEN Dataset("c", "a")
    ELSE Dataset("d" \o ToString(i), "n" \o ToString(i))

\* A catalog of n datasets, for pagination.
Big(n) == [i \in 1..n |-> BigDataset(i)]

\* Sizes around the page size: no page, full pages only, full pages and a rest.
BigSizes == {0, 50, 100, 120}

PagedCatalogs == {Big(n) : n \in BigSizes}

\* Sizes at and next to the multiples of the page size.
ListSizes == {0, 1, 49, 50, 51, 99, 100, 101, 120, 149, 150}

ListedCatalogs == {Big(n) : n \in ListSizes}

Sqls == {"", "select x from table"}

\* What the remote service answers during one operation: whether the token
\* request succeeds with a well-formed body, which listing request (0: none)
\* fails, and whether the query-execution request succeeds.
\* An exception ends the operation, so at most one request fails.
Envs ==
    {e \in [tokenOk : BOOLEAN, listFail : 0..MaxListFail, queryOk : BOOLEAN] :
        \/ e.tokenOk /\ e.queryOk
        \/ e.tokenOk /\ e.listFail = 0 /\ ~e.queryOk
        \/ e.queryOk /\ e.listFail = 0 /\ ~e.tokenOk}

\* Every request of the operation succeeds.
OkEnv == [tokenOk |-> TRUE, listFail |-> 0, queryOk |-> TRUE]

\* The body of a query-execution response: "columns" and "rows".
EmptyResponse == [columns |-> <<>>, rows |-> <<>>]

\* Column names repeat, and a row may be shorter or longer than columns.
Responses ==
    [columns : SeqsUpTo({"x", "y"}, MaxCols),
     rows : SeqsUpTo(SeqsUpTo({1, 2}, MaxCols), MaxRows)]

\* The access_token of the (n+1)-th token the service issues.
Token(n) == "t" \o ToString(n + 1)

-----------------------------------------------------------------------------
(* HTTP requests, as recorded in call.reqs *)

TokenRequest ==
    [kind |-> "token", offset |-> 0, limit |-> 0, target |-> "", sql |-> "",
     headers |-> NoHeader]

ListRequest(offset, limit, header) ==
    [kind |-> "list", offset |-> offset, limit |-> limit, target |-> "",
     sql |-> "", headers |-> header]

QueryRequest(id, sql, header) ==
    [kind |-> "query", offset |-> 0, limit |-> 0, target |-> id, sql |-> sql,
     headers |-> header]

\* The listing endpoint honours offset and limit.
Page(catalog, offset, limit) ==
    SubSeq(catalog, offset + 1, Min(offset + limit, Len(catalog)))

-----------------------------------------------------------------------------
(* The methods of Connection.  Each operator gives the outcome of a call   *)
(* as a record: ok (FALSE when an exception left the method), err, the     *)
(* fields of self as the call leaves them, and the requests it issued.     *)
(* The value one step computes is handed to the next step as an argument.  *)

\* login without the test of line 49: every call asks for a token
login_uncached(lg, env, n) ==
    IF env.tokenOk
    THEN [ok |-> TRUE, err |-> "", login |-> BearerHeader(Token(n)),
          issued |-> Min(n + 1, MaxIssued), reqs |-> <<TokenRequest>>]
    ELSE [ok |-> FALSE, err |-> "token", login |-> lg, issued |-> n,
          reqs |-> <<TokenRequest>>]

\* Connection.login (property)
login(lg, env, n) ==
    IF lg # NoHeader
    THEN [ok |-> TRUE, err |-> "", login |-> lg, issued |-> n, reqs |-> <<>>]
    ELSE IF env.tokenOk
         THEN [ok |-> TRUE, err |-> "", login |-> BearerHeader(Token(n)),
               issued |-> Min(n + 1, MaxIssued), reqs |-> <<TokenRequest>>]
         ELSE [ok |-> FALSE, err |-> "token", login |-> lg, issued |-> n,
               reqs |-> <<TokenRequest>>]

\* The loop ended at the first page shorter than limit
RECURSIVE FetchLoop_short(_, _, _, _, _, _)
FetchLoop_short(catalog, header, offset, datasets, reqs, env) ==
    LET sent  == Append(reqs, ListRequest(offset, Limit, header))
        chunk == Page(catalog, offset, Limit)
    IN  IF env.listFail = Len(sent)
        THEN [ok |-> FALSE, datasets |-> datasets, reqs |-> sent]
        ELSE IF Len(chunk) < Limit
             THEN [ok |-> TRUE, datasets |-> datasets \o chunk, reqs |-> sent]
             ELSE FetchLoop_short(catalog, header, offset + Limit,
                                  datasets \o chunk, sent, env)

\* The loop with each chunk put in front of the master list
RECURSIVE FetchLoop_front(_, _, _, _, _, _)
FetchLoop_front(catalog, header, offset, datasets, reqs, env) ==
    LET sent  == Append(reqs, ListRequest(offset, Limit, header))
        chunk == Page(catalog, offset, Limit)
    IN  IF env.listFail = Len(sent)
        THEN [ok |-> FALSE, datasets |-> datasets, reqs |-> sent]
        ELSE IF chunk = <<>>
             THEN [ok |-> TRUE, datasets |-> datasets, reqs |-> sent]
             ELSE FetchLoop_front(catalog, header, offset + Limit,
                                  chunk \o datasets, sent, env)

(* The while loop of Connection.tables, from the state (offset, datasets)  *)
(* with reqs the listing requests issued so far.                           *)
RECURSIVE FetchLoop(_, _, _, _, _, _)
FetchLoop(catalog, header, offset, datasets, reqs, env) ==
    LET sent  == Append(reqs, ListRequest(offset, Limit, header))
        chunk == Page(catalog, offset, Limit)
    IN  IF env.listFail = Len(sent)
        THEN [ok |-> FALSE, datasets |-> datasets, reqs |-> sent]
        ELSE IF chunk = <<>>
             THEN [ok |-> TRUE, datasets |-> datasets, reqs |-> sent]
             ELSE FetchLoop(catalog, header, offset + Limit,
                            datasets \o chunk, sent, env)

\* The datasets fetched before the exception kept in self._tables
Store_partial(l, tb, f) ==
    [ok |-> f.ok, err |-> IF f.ok THEN "" ELSE "list", login |-> l.login,
     tables |-> f.datasets, issued |-> l.issued, reqs |-> l.reqs \o f.reqs]

\* Lines 92-93 with the outcome f of the loop: an exception in the loop
\* leaves tables before the assignment to self._tables.
Store(l, tb, f) ==
    IF ~f.ok
    THEN [ok |-> FALSE, err |-> "list", login |-> l.login, tables |-> tb,
          issued |-> l.issued, reqs |-> l.reqs \o f.reqs]
    ELSE [ok |-> TRUE, err |-> "", login |-> l.login, tables |-> f.datasets,
          issued |-> l.issued, reqs |-> l.reqs \o f.reqs]

\* The loop taken up again after the first page
Fetch_resumed(l, tb, catalog, env) ==
    IF ~l.ok
    THEN [ok |-> FALSE, err |-> l.err, login |-> l.login, tables |-> tb,
          issued |-> l.issued, reqs |-> l.reqs]
    ELSE Store(l, tb, FetchLoop(catalog, l.login, Limit, <<>>, <<>>, env))

\* Lines 72-93 with the outcome l of self.login
Fetch(l, tb, catalog, env) ==
    IF ~l.ok
    THEN [ok |-> FALSE, err |-> l.err, login |-> l.login, tables |-> tb,
          issued |-> l.issued, reqs |-> l.reqs]
    ELSE Store(l, tb, FetchLoop(catalog, l.login, 0, <<>>, <<>>, env))

\* Connection.tables (property)
tables(lg, tb, catalog, env, n) ==
    IF tb # <<>>
    THEN [ok |-> TRUE, err |-> "", login |-> lg, tables |-> tb, issued |-> n,
          reqs |-> <<>>]
    ELSE Fetch(login(lg, env, n), tb, catalog, env)

\* The test of the for loop of Connection.find_table on one table
Matches(table, id_or_name) ==
    \/ table.name = id_or_name
    \/ table.id = id_or_name

\* The loop run for the name first, then for the id
Scan_name_first(tb, id_or_name) ==
    LET names == {i \in 1..Len(tb) : tb[i].name = id_or_name}
        ids   == {i \in 1..Len(tb) : tb[i].id = id_or_name}
    IN  IF names # {} THEN CHOOSE i \in names : \A j \in names : i <= j
        ELSE IF ids # {} THEN CHOOSE i \in ids : \A j \in ids : i <= j
        ELSE 0

(* The for loop of Connection.find_table: the index of the table it        *)
(* returns at, the first one that matches; 0 when the loop runs off the    *)
(* end (the method returns None).                                          *)
Scan(tb, id_or_name) ==
    LET hits == {i \in 1..Len(tb) : Matches(tb[i], id_or_name)}
    IN  IF hits = {} THEN 0
        ELSE CHOOSE i \in hits : \A j \in hits : i <= j

\* find_table forgetting the table when the loop finds none
Found_reset(t, last, i) ==
    IF ~t.ok THEN [t EXCEPT !.ok = FALSE] @@ [last |-> last, ret |-> NoTable]
    ELSE IF i = 0 THEN t @@ [last |-> NoTable, ret |-> NoTable]
    ELSE t @@ [last |-> <<t.tables[i]>>, ret |-> <<t.tables[i]>>]

\* Lines 100-106 with the outcome t of self.tables and i the index the
\* loop stops at; ret is the value returned, NoTable for None.
Found(t, last, i) ==
    IF ~t.ok \/ i = 0
    THEN [ok |-> t.ok, err |-> t.err, login |-> t.login, tables |-> t.tables,
          last |-> last, issued |-> t.issued, reqs |-> t.reqs,
          ret |-> NoTable]
    ELSE [ok |-> TRUE, err |-> "", login |-> t.login, tables |-> t.tables,
          last |-> <<t.tables[i]>>, issued |-> t.issued, reqs |-> t.reqs,
          ret |-> <<t.tables[i]>>]

Find(t, last, id_or_name) == Found(t, last, Scan(t.tables, id_or_name))

\* Connection.find_table
find_table(lg, tb, last, catalog, id_or_name, env, n) ==
    Find(tables(lg, tb, catalog, env, n), last, id_or_name)

(* Connection.query.  In the outcome, target is the id in the URL of the   *)
(* query-execution request ("" when none was sent), resolved whether       *)
(* find_table was called and listed whether self.tables returned.          *)

\* The test of line 129 as the docstring has it: the last table is used
\* when no id_or_name is passed
UseLast_default(id_or_name, last) == id_or_name = "" /\ last # NoTable

\* The test of line 129: query takes the id of _last_id_or_name as it is
UseLast(id_or_name, last) == id_or_name # "" /\ last # NoTable

\* The test of line 131: query raises ValueError
NoDataset(id_or_name, last) == id_or_name = "" /\ last = NoTable

\* An exception that leaves query
Raise(err, header, tb, last, n, reqs, resolved, fetched) ==
    [ok |-> FALSE, err |-> err, login |-> header, tables |-> tb,
     last |-> last, issued |-> n, reqs |-> reqs, target |-> "",
     resolved |-> resolved, listed |-> fetched]

\* Lines 137-155: the request for dataset id, and its response
Execute(id, header, tb, last, n, reqs, sql, resolved, env) ==
    [ok |-> env.queryOk, err |-> IF env.queryOk THEN "" ELSE "query",
     login |-> header, tables |-> tb, last |-> last, issued |-> n,
     reqs |-> Append(reqs, QueryRequest(id, sql, header)), target |-> id,
     resolved |-> resolved, listed |-> resolved]

\* Line 135 reading the name of the table found
Lookup_name(f, reqs, sql, env) ==
    IF ~f.ok
    THEN Raise(f.err, f.login, f.tables, f.last, f.issued, reqs \o f.reqs,
               TRUE, FALSE)
    ELSE IF f.last = NoTable
    THEN Raise("type", f.login, f.tables, f.last, f.issued, reqs \o f.reqs,
               TRUE, TRUE)
    ELSE Execute(f.last[1].name, f.login, f.tables, f.last, f.issued,
                 reqs \o f.reqs, sql, TRUE, env)

\* Line 135 with None where no table was found: no TypeError
Lookup_none(f, reqs, sql, env) ==
    IF ~f.ok
    THEN Raise(f.err, f.login, f.tables, f.last, f.issued, reqs \o f.reqs,
               TRUE, FALSE)
    ELSE IF f.last = NoTable
    THEN Execute("None", f.login, f.tables, f.last, f.issued,
                 reqs \o f.reqs, sql, TRUE, env)
    ELSE Execute(f.last[1].id, f.login, f.tables, f.last, f.issued,
                 reqs \o f.reqs, sql, TRUE, env)

\* Line 135 on with the outcome f of find_table: ""["id"] raises TypeError
Lookup(f, reqs, sql, env) ==
    IF ~f.ok
    THEN Raise(f.err, f.login, f.tables, f.last, f.issued, reqs \o f.reqs,
               TRUE, FALSE)
    ELSE IF f.last = NoTable
    THEN Raise("type", f.login, f.tables, f.last, f.issued, reqs \o f.reqs,
               TRUE, TRUE)
    ELSE Execute(f.last[1].id, f.login, f.tables, f.last, f.issued,
                 reqs \o f.reqs, sql, TRUE, env)

\* Lines 129-135
Select(header, tb, last, catalog, sql, id_or_name, env, n, reqs) ==
    IF UseLast(id_or_name, last)
    THEN Execute(last[1].id, header, tb, last, n, reqs, sql, FALSE, env)
    ELSE IF NoDataset(id_or_name, last)
    THEN Raise("usage", header, tb, last, n, reqs, FALSE, FALSE)
    ELSE Lookup(find_table(header, tb, last, catalog, id_or_name, env, n),
                reqs, sql, env)

\* query going on with whatever header it has after a failed token request
Prepare_unchecked(l, tb, last, catalog, sql, id_or_name, env) ==
    Select(SetItem(l.login, "Accept", AcceptJson), tb, last, catalog,
           IF sql = "" THEN DefaultSql ELSE sql, id_or_name, env,
           l.issued, l.reqs)

\* Lines 121-127 with the outcome l of self.login.  header is self._login
\* itself, so line 124 writes the cached dict.
Prepare(l, tb, last, catalog, sql, id_or_name, env) ==
    IF ~l.ok
    THEN Raise(l.err, l.login, tb, last, l.issued, l.reqs, FALSE, FALSE)
    ELSE Select(SetItem(l.login, "Accept", AcceptJson), tb, last, catalog,
                IF sql = "" THEN DefaultSql ELSE sql, id_or_name, env,
                l.issued, l.reqs)

\* dict(zip(columns, row)): zip stops at the shorter of the two, and a
\* key that repeats keeps the value zipped last.
ZipDict(columns, row) ==
    [k \in {columns[j] : j \in 1..Min(Len(columns), Len(row))} |->
        row[CHOOSE j \in 1..Min(Len(columns), Len(row)) :
               /\ columns[j] = k
               /\ \A h \in 1..Min(Len(columns), Len(row)) :
                     columns[h] = k => h <= j]]

\* The list comprehension read from its last row to its first
Rows_reversed(body) ==
    [i \in 1..Len(body.rows) |->
        ZipDict(body.columns, body.rows[Len(body.rows) + 1 - i])]

\* Lines 148-155: one dict per row, in the order of response["rows"]
Rows(body) ==
    [i \in 1..Len(body.rows) |-> ZipDict(body.columns, body.rows[i])]

\* Connection.query
query(lg, tb, last, catalog, sql, id_or_name, env, n) ==
    Prepare(login(lg, env, n), tb, last, catalog, sql, id_or_name, env)

-----------------------------------------------------------------------------
(* Threads.  A thread inside the login or the tables property is at a line *)
(* of the source (pc) and holds the locals of the two methods.             *)

Threads == 1..MaxThreads

\* A thread about to read property op: at line 49 of login or at line 69
\* of tables, with its locals unset.
Entering(op) ==
    [op |-> op, pc |-> IF op = "login" THEN "l49" ELSE "l69",
     no_login |-> FALSE, no_tables |-> FALSE, token |-> "",
     header |-> NoHeader, offset |-> 0, datasets |-> <<>>, sent |-> 0]

\* A thread that is in neither property
Idle == [Entering("login") EXCEPT !.op = "", !.pc = "done"]

\* The operations of the first sections run in the caller's thread alone.
NoThreads == [t \in Threads |-> Idle]

\* Where a thread goes on when self.login returns: out of the property, or
\* to the loop of tables (line 72 on)
AfterLogin(op) == IF op = "login" THEN "done" ELSE "l83"

-----------------------------------------------------------------------------
(* The state machine *)

\* The fields an outcome r has
Has(r, field) == field \in DOMAIN r

\* What `call` records of operation op with outcome r, with the state it
\* started from (of _tables, only whether it was empty; pre_failed when it
\* follows a tables whose listing failed).  ret is the value login and
\* find_table return; tables returns self._tables.
Call(op, id_or_name, sql, r) ==
    [op |-> op, id_or_name |-> id_or_name, sql |-> sql, ok |-> r.ok,
     err |-> r.err, reqs |-> r.reqs,
     ret |-> IF op = "login" THEN r.login
             ELSE IF op = "find_table" THEN r.ret ELSE <<>>,
     target |-> IF op = "query" THEN r.target ELSE "",
     resolved |-> IF op = "query" THEN r.resolved ELSE op = "find_table",
     pre_login |-> _login, pre_cached |-> _tables # <<>>,
     pre_last |-> _last_id_or_name, pre_listed |-> listed,
     pre_failed |-> (call.op = "tables" /\ call.err = "list")]

\* Operation op ends with outcome r: the fields of self it gives are
\* assigned; the remote service counts the tokens it issued.
Done(op, id_or_name, sql, r) ==
    /\ _login' = r.login
    /\ issued' = r.issued
    /\ IF Has(r, "tables")
       THEN /\ _tables' = r.tables
            /\ listed' = (listed \/ IF op = "query" THEN r.listed ELSE r.ok)
       ELSE TRUE
    /\ IF Has(r, "last") THEN _last_id_or_name' = r.last ELSE TRUE
    /\ call' = Call(op, id_or_name, sql, r)
    /\ UNCHANGED remote

NoCall(op) ==
    [op |-> op, id_or_name |-> "", sql |-> "", ok |-> TRUE, err |-> "",
     ret |-> <<>>, reqs |-> <<>>, target |-> "", resolved |-> FALSE,
     pre_login |-> NoHeader, pre_cached |-> FALSE, pre_last |-> NoTable,
     pre_listed |-> FALSE, pre_failed |-> FALSE]

\* Connection(client_id, secret): the dataclass defaults of lines 42-44.
Init ==
    /\ _login = NoHeader
    /\ _tables = <<>>
    /\ _last_id_or_name = NoTable
    /\ remote \in SmallCatalogs
    /\ issued = 0
    /\ listed = FALSE
    /\ call = NoCall("init")
    /\ response = EmptyResponse
    /\ data = <<>>
    /\ threads = NoThreads

\* conn.login
Authenticate(env) ==
    /\ Done("login", "", "", login(_login, env, issued))
    /\ UNCHANGED <<_tables, _last_id_or_name, listed, response, data,
                   threads>>

\* conn.tables
ListDatasets(env) ==
    /\ Done("tables", "", "", tables(_login, _tables, remote, env, issued))
    /\ UNCHANGED <<_last_id_or_name, response, data, threads>>

\* conn.find_table(id_or_name)
Resolve(id_or_name, env) ==
    /\ Done("find_table", id_or_name, "",
            find_table(_login, _tables, _last_id_or_name, remote, id_or_name,
                       env, issued))
    /\ UNCHANGED <<response, data, threads>>

\* conn.query(sql, id_or_name): the list of dicts is built and returned
\* when no exception left the method
Query(sql, id_or_name, env) ==
    /\ Done("query", id_or_name, sql,
            query(_login, _tables, _last_id_or_name, remote, sql, id_or_name,
                  env, issued))
    /\ data' = IF call'.ok THEN Rows(response) ELSE data
    /\ UNCHANGED <<response, threads>>

\* The datasets of the domain change between two operations.
RemoteChange(catalog) ==
    /\ catalog # remote
    /\ remote' = catalog
    /\ call' = NoCall("remote")
    /\ UNCHANGED <<_login, _tables, _last_id_or_name, issued, listed,
                   response, data, threads>>

\* The operations of the Connection
Client ==
    \/ \E env \in Envs : Authenticate(env)
    \/ \E env \in Envs : ListDatasets(env)
    \/ \E id_or_name \in Strs, env \in Envs : Resolve(id_or_name, env)
    \/ \E sql \in Sqls, id_or_name \in Strs, env \in Envs :
          Query(sql, id_or_name, env)

Next ==
    \/ Client
    \/ \E catalog \in SmallCatalogs : RemoteChange(catalog)

Spec == Init /\ [][Next]_vars

(* The same Connection against a domain whose catalog spans several pages *)

InitPaged ==
    /\ _login = NoHeader
    /\ _tables = <<>>
    /\ _last_id_or_name = NoTable
    /\ remote \in PagedCatalogs
    /\ issued = 0
    /\ listed = FALSE
    /\ call = NoCall("init")
    /\ response = EmptyResponse
    /\ data = <<>>
    /\ threads = NoThreads

NextPaged ==
    \/ Client
    \/ \E catalog \in PagedCatalogs : RemoteChange(catalog)

SpecPaged == InitPaged /\ [][NextPaged]_vars

(* query on one dataset, for each body the service may answer with *)

InitRows ==
    /\ _login = NoHeader
    /\ _tables = <<>>
    /\ _last_id_or_name = NoTable
    /\ remote = <<Dataset("a", "b")>>
    /\ issued = 0
    /\ listed = FALSE
    /\ call = NoCall("init")
    /\ response \in Responses
    /\ data = <<>>
    /\ threads = NoThreads

NextRows == \E sql \in Sqls : Query(sql, "a", OkEnv)

SpecRows == InitRows /\ [][NextRows]_vars

(* Threads that read the login or the tables property of one Connection    *)
(* at the same time.  A step is one line of the source with a read or a    *)
(* write of self, or one HTTP request; the remote catalog does not change. *)

\* Thread t goes on with its position and locals as r gives them.
Goes(t, r) ==
    /\ threads' = [threads EXCEPT ![t] = r]
    /\ UNCHANGED <<_last_id_or_name, remote, listed, call, response, data>>

\* Line 69: if self._tables: return self._tables
TablesTest(t) ==
    /\ threads[t].pc = "l69"
    /\ Goes(t, IF _tables # <<>>
               THEN [threads[t] EXCEPT !.pc = "done"]
               ELSE [threads[t] EXCEPT !.pc = "l49", !.no_tables = TRUE])
    /\ UNCHANGED <<_login, _tables, issued>>

\* Lines 49-50: if self._login: return self._login
LoginTest(t) ==
    /\ threads[t].pc = "l49"
    /\ Goes(t, IF _login # NoHeader
               THEN [threads[t] EXCEPT !.pc = AfterLogin(threads[t].op),
                                       !.header = _login]
               ELSE [threads[t] EXCEPT !.pc = "l54", !.no_login = TRUE])
    /\ UNCHANGED <<_login, _tables, issued>>

\* The token request made only if self._login is still empty
TokenGet_rechecked(t, ok) ==
    /\ threads[t].pc = "l54"
    /\ IF _login # NoHeader
       THEN /\ Goes(t, [threads[t] EXCEPT !.pc = "l60"])
            /\ UNCHANGED issued
       ELSE IF ok
       THEN /\ Goes(t, [threads[t] EXCEPT !.pc = "l59",
                                          !.token = Token(issued),
                                          !.header = BearerHeader(Token(issued))])
            /\ issued' = Min(issued + 1, MaxIssued)
       ELSE /\ Goes(t, [threads[t] EXCEPT !.pc = "raised"])
            /\ UNCHANGED issued
    /\ UNCHANGED <<_login, _tables>>

\* Lines 52-58: the token request, its token and the header made of it; an
\* exception when the request fails
TokenGet(t, ok) ==
    /\ threads[t].pc = "l54"
    /\ IF ok
       THEN /\ Goes(t, [threads[t] EXCEPT !.pc = "l59",
                                          !.token = Token(issued),
                                          !.header = BearerHeader(Token(issued))])
            /\ issued' = Min(issued + 1, MaxIssued)
       ELSE /\ Goes(t, [threads[t] EXCEPT !.pc = "raised"])
            /\ UNCHANGED issued
    /\ UNCHANGED <<_login, _tables>>

\* Line 59: self._login = header
LoginSet(t) ==
    /\ threads[t].pc = "l59"
    /\ _login' = threads[t].header
    /\ Goes(t, [threads[t] EXCEPT !.pc = "l60"])
    /\ UNCHANGED <<_tables, issued>>

\* Line 60: return self._login (to line 72 when tables called)
LoginReturn(t) ==
    /\ threads[t].pc = "l60"
    /\ Goes(t, [threads[t] EXCEPT !.pc = AfterLogin(threads[t].op),
                                  !.header = _login])
    /\ UNCHANGED <<_login, _tables, issued>>

\* The loop left at the first page shorter than limit
PageGet_short(t, ok) ==
    /\ threads[t].pc = "l83"
    /\ Goes(t, IF ~ok
               THEN [threads[t] EXCEPT !.pc = "raised", !.sent = @ + 1]
               ELSE IF Len(Page(remote, threads[t].offset, Limit)) < Limit
               THEN [threads[t] EXCEPT
                        !.pc = "l92", !.sent = @ + 1,
                        !.datasets = @ \o Page(remote, threads[t].offset, Limit)]
               ELSE [threads[t] EXCEPT
                        !.sent = @ + 1,
                        !.datasets = @ \o Page(remote, threads[t].offset, Limit),
                        !.offset = @ + Limit])
    /\ UNCHANGED <<_login, _tables, issued>>

\* Lines 80-90: one turn of the loop: the request for the page at offset,
\* then break on an empty chunk, else extend and move offset
PageGet(t, ok) ==
    /\ threads[t].pc = "l83"
    /\ Goes(t, IF ~ok
               THEN [threads[t] EXCEPT !.pc = "raised", !.sent = @ + 1]
               ELSE IF Page(remote, threads[t].offset, Limit) = <<>>
               THEN [threads[t] EXCEPT !.pc = "l92", !.sent = @ + 1]
               ELSE [threads[t] EXCEPT
                        !.sent = @ + 1,
                        !.datasets = @ \o Page(remote, threads[t].offset, Limit),
                        !.offset = @ + Limit])
    /\ UNCHANGED <<_login, _tables, issued>>

\* Lines 92-93: self._tables = datasets; return self._tables
TablesSet(t) ==
    /\ threads[t].pc = "l92"
    /\ _tables' = threads[t].datasets
    /\ Goes(t, [threads[t] EXCEPT !.pc = "done"])
    /\ UNCHANGED <<_login, issued>>

\* The next step of thread t
Step(t) ==
    \/ TablesTest(t)
    \/ LoginTest(t)
    \/ \E ok \in BOOLEAN : TokenGet(t, ok)
    \/ LoginSet(t)
    \/ LoginReturn(t)
    \/ \E ok \in BOOLEAN : PageGet(t, ok)
    \/ TablesSet(t)

InitRace ==
    /\ _login = NoHeader
    /\ _tables = <<>>
    /\ _last_id_or_name = NoTable
    /\ remote \in PagedCatalogs
    /\ issued = 0
    /\ listed = FALSE
    /\ call = NoCall("init")
    /\ response = EmptyResponse
    /\ data = <<>>
    /\ threads \in [Threads -> {Entering("login"), Entering("tables")}]

NextRace == \E t \in Threads : Step(t)

SpecRace == InitRace /\ [][NextRace]_vars

(* One thread reads tables on a new Connection, for each size of the       *)
(* remote catalog.                                                         *)

InitList ==
    /\ _login = NoHeader
    /\ _tables = <<>>
    /\ _last_id_or_name = NoTable
    /\ remote \in ListedCatalogs
    /\ issued = 0
    /\ listed = FALSE
    /\ call = NoCall("init")
    /\ response = EmptyResponse
    /\ data = <<>>
    /\ threads = [NoThreads EXCEPT ![1] = Entering("tables")]

SpecList == InitList /\ [][NextRace]_vars

\* A thread that can take a step is scheduled again.
SpecListFair == SpecList /\ \A t \in Threads : WF_vars(Step(t))

-----------------------------------------------------------------------------
(* Properties *)

\* The requests of one kind that an operation issued
Requests(c, kind) == SelectSeq(c.reqs, LAMBDA q : q.kind = kind)

\* call records an operation of the Connection
IsCall == call.op \in {"login", "tables", "find_table", "query"}

\* The Authorization entry of a header
Authorization(header) == {p \in header : p[1] = "Authorization"}

(* C1: authentication is memoized.  The remote service issues at most one  *)
(* token to a Connection, and has issued exactly one when the header is    *)
(* cached; an operation that starts with the header cached sends no token  *)
(* request; the login property then returns the cached header, which stays *)
(* as it was.                                                              *)
C1_AuthMemo ==
    /\ issued <= 1
    /\ (_login # NoHeader) <=> (issued = 1)
    /\ IsCall /\ call.pre_login # NoHeader =>
          /\ Requests(call, "token") = <<>>
          /\ Authorization(_login) = Authorization(call.pre_login)
    /\ call.op = "login" /\ call.pre_login # NoHeader =>
          /\ call.ok
          /\ call.ret = call.pre_login
          /\ _login = call.pre_login

\* The login property is read a second time, after a query.
C1_Witness ==
    /\ call.op = "login"
    /\ call.pre_login # NoHeader
    /\ <<"Accept", AcceptJson>> \in call.ret
    /\ issued = 1

(* C2: the catalog is computed at most once per Connection, for every size *)
(* of the remote catalog: once the tables property has returned, no step   *)
(* sends a listing request and _tables keeps its value, whatever the       *)
(* remote service holds by then.                                           *)
C2_CatalogMemo ==
    [][listed => /\ Requests(call, "list")' = <<>>
                 /\ _tables' = _tables]_vars

\* The listing requests of a call of the tables property that found
\* nothing cached and returned
Listing == Requests(call, "list")

Listed == call.op = "tables" /\ call.ok /\ ~call.pre_cached

\* The number of pages of a catalog that hold a dataset
Pages(catalog) == (Len(catalog) + Limit - 1) \div Limit

(* C3 as claimed: tables sends 3 listing requests for 120 datasets, one    *)
(* per non-empty page, and 1 request for no dataset.                       *)
C3_OnePerPage ==
    Listed =>
        /\ Len(remote) = 120 => Len(Listing) = 3
        /\ Len(remote) = 0 => Len(Listing) = 1

(* C3 as amended: tables sends one listing request per non-empty page and  *)
(* one more, answered by the empty page that ends the loop: 4 requests     *)
(* for 120 datasets (50, 50, 20, 0), 1 request for no dataset.             *)
C3_OnePerPageAndOne ==
    Listed =>
        /\ Len(Listing) = Pages(remote) + 1
        /\ Len(remote) = 120 => Len(Listing) = 4
        /\ Len(remote) = 0 => Len(Listing) = 1

\* tables has fetched 120 datasets.
C3_Witness == Listed /\ Len(remote) = 120 /\ Len(_tables) = 120

(* C4: tables requests the offsets 0, 50, 100, ... in this order, each     *)
(* with limit 50, and returns the datasets of the remote catalog, each     *)
(* once, in the order of the remote catalog; none for an empty catalog.    *)
C4_PaginationComplete ==
    Listed =>
        /\ \A i \in 1..Len(Listing) :
              /\ Listing[i].offset = (i - 1) * Limit
              /\ Listing[i].limit = Limit
        /\ \A i, j \in 1..Len(Listing) :
              i < j => Listing[i].offset < Listing[j].offset
        /\ Len(_tables) = Len(remote)
        /\ \A i \in 1..Len(remote) : _tables[i] = remote[i]

\* tables has fetched two full pages.
C4_Witness == Listed /\ Len(remote) = 100 /\ Len(_tables) = 100

\* query() was called with no id_or_name on a Connection just constructed
QueryOnNew ==
    /\ call.op = "query"
    /\ call.id_or_name = ""
    /\ call.pre_login = NoHeader
    /\ ~call.pre_cached
    /\ call.pre_last = NoTable

(* C5: query() with no id_or_name on a new Connection raises the usage     *)
(* error before any request is sent.                                       *)
C5_UsageBeforeRequests ==
    QueryOnNew => (call.err = "usage" /\ call.reqs = <<>>)

\* Table i of the cached catalog has s as its name or as its id
Hit(i, s) == _tables[i].name = s \/ _tables[i].id = s

(* C6: find_table(s) returns the first table of the catalog, in catalog    *)
(* order, whose name or id is s, also when a later table has s as its      *)
(* name; _last_id_or_name is then that table.  With no such table it       *)
(* returns None.                                                           *)
C6_ResolveFirstMatch ==
    call.op = "find_table" /\ call.ok =>
        IF \E i \in 1..Len(_tables) : Hit(i, call.id_or_name)
        THEN \E i \in 1..Len(_tables) :
                /\ Hit(i, call.id_or_name)
                /\ \A j \in 1..(i - 1) : ~Hit(j, call.id_or_name)
                /\ call.ret = <<_tables[i]>>
                /\ _last_id_or_name = call.ret
        ELSE call.ret = NoTable

\* "a" is the id of the first table and the name of the second.
C6_Witness ==
    /\ call.op = "find_table"
    /\ call.id_or_name = "a"
    /\ _tables = <<Dataset("a", "b"), Dataset("c", "a")>>
    /\ call.ret = <<Dataset("a", "b")>>

(* C7: _last_id_or_name changes only in a find_table that finds a table    *)
(* (called directly or by query), and becomes that table.  A find_table    *)
(* that finds none, login, tables and the branch of query that does not    *)
(* call find_table leave it as it was; once set it is never unset.         *)
C7_LastResolvedFrame ==
    IsCall =>
        /\ _last_id_or_name # call.pre_last =>
              /\ call.resolved
              /\ \E i \in 1..Len(_tables) :
                    /\ Hit(i, call.id_or_name)
                    /\ _last_id_or_name = <<_tables[i]>>
        /\ call.op = "find_table" /\ call.ret = NoTable =>
              _last_id_or_name = call.pre_last
        /\ call.op \in {"login", "tables"} =>
              _last_id_or_name = call.pre_last
        /\ call.op = "query" /\ ~call.resolved =>
              _last_id_or_name = call.pre_last
        /\ call.pre_last # NoTable => _last_id_or_name # NoTable

\* find_table found no table while a table was remembered.
C7_Witness ==
    /\ call.op = "find_table"
    /\ call.ok
    /\ call.ret = NoTable
    /\ call.pre_last # NoTable
    /\ _last_id_or_name = call.pre_last

(* C8: query(sql, id_or_name) with an id_or_name, called while             *)
(* _last_id_or_name is set, does not call find_table, leaves               *)
(* _last_id_or_name as it was and sends its one query-execution request    *)
(* for the id of _last_id_or_name, whatever id_or_name is.                 *)
C8_SelectionQuirk ==
    call.op = "query" /\ call.id_or_name # "" /\ call.pre_last # NoTable =>
        /\ ~call.resolved
        /\ _last_id_or_name = call.pre_last
        /\ \A i \in 1..Len(call.reqs) :
              call.reqs[i].kind = "query" =>
                  call.reqs[i].target = call.pre_last[1].id
        /\ call.err # "token" =>
              /\ Len(Requests(call, "query")) = 1
              /\ call.target = call.pre_last[1].id

\* query was given the id of another dataset of the catalog.
C8_Witness ==
    /\ call.op = "query"
    /\ call.ok
    /\ call.id_or_name = "c"
    /\ call.pre_last = <<Dataset("a", "b")>>
    /\ \E i \in 1..Len(_tables) : _tables[i].id = "c"
    /\ call.target = "a"

(* C9: after a query that was passed the id or name X of a dataset has     *)
(* succeeded, the next query, passed no id_or_name, is run on dataset X.   *)
C9_LastIdRemembered ==
    [][(/\ call.op = "query" /\ call.ok /\ call.id_or_name # ""
        /\ \E i \in 1..Len(_tables) : Hit(i, call.id_or_name)
        /\ call'.op = "query" /\ call'.ok /\ call'.id_or_name = "")
       => \E i \in 1..Len(_tables) :
             /\ Hit(i, call.id_or_name)
             /\ call'.target = _tables[i].id]_vars

\* Two catalogs hold the same datasets in the same order
SameCatalog(a, b) ==
    /\ Len(a) = Len(b)
    /\ \A i \in 1..Len(a) : a[i] = b[i]

(* C10 as claimed: an operation that ends in a failure leaves the cached   *)
(* header, the cached catalog and _last_id_or_name as they were.           *)
C10_UnchangedOnFailure ==
    [][IsCall' /\ ~call'.ok =>
          /\ _login' = _login
          /\ _tables' = _tables
          /\ _last_id_or_name' = _last_id_or_name]_vars

(* C10 as amended: a failure loses nothing that was cached and caches no   *)
(* part of a catalog, and what the call completed before it failed stays:  *)
(* a cached header keeps its Authorization entry; the header changes only  *)
(* by a token the call fetched or by the Accept entry of query; a cached   *)
(* catalog is unchanged, and an empty one changes only to the whole        *)
(* remote catalog, fetched by the find_table of a query that failed later; *)
(* _last_id_or_name changes only by that find_table, and is never unset.   *)
C10_CompletedStepsKept ==
    [][IsCall' /\ ~call'.ok =>
          /\ _login # NoHeader =>
                /\ Authorization(_login') = Authorization(_login)
                /\ _login \subseteq _login'
          /\ _login' # _login =>
                \/ Requests(call, "token")' # <<>> /\ call'.err # "token"
                \/ call'.op = "query" /\ call'.err # "token"
          /\ _tables # <<>> => _tables' = _tables
          /\ _tables' # _tables =>
                /\ SameCatalog(_tables', remote)
                /\ call'.op = "query"
                /\ call'.err \in {"type", "query"}
          /\ _last_id_or_name' # _last_id_or_name =>
                /\ call'.op = "query"
                /\ call'.err = "query"
                /\ call'.resolved
          /\ _last_id_or_name # NoTable => _last_id_or_name' # NoTable]_vars

\* The third listing request of tables failed, after two pages; the
\* header fetched by the call is cached, the catalog is not.
C10_Witness ==
    /\ call.op = "tables"
    /\ call.err = "list"
    /\ Len(Requests(call, "list")) = 3
    /\ call.pre_login = NoHeader
    /\ _login # NoHeader
    /\ _tables = <<>>

(* C11: every query-execution request is sent for the id of the table in   *)
(* _last_id_or_name, which is a table of the cached catalog: never for a   *)
(* name, for id_or_name as passed, or for no table.                        *)
C11_TargetIsCatalogId ==
    /\ _last_id_or_name # NoTable =>
          \E k \in 1..Len(_tables) : _tables[k] = _last_id_or_name[1]
    /\ \A i \in 1..Len(call.reqs) :
          call.reqs[i].kind = "query" =>
              /\ _last_id_or_name # NoTable
              /\ call.reqs[i].target = _last_id_or_name[1].id
              /\ call.target = call.reqs[i].target

\* query was passed the name "a" of the table with id "c".
C11_Witness ==
    /\ call.op = "query"
    /\ call.ok
    /\ call.resolved
    /\ call.id_or_name = "a"
    /\ call.target = "c"
    /\ Len(Requests(call, "query")) = 1

\* The names in a list of columns are distinct
Distinct(columns) ==
    \A i, j \in 1..Len(columns) : columns[i] = columns[j] => i = j

(* C12: for a response whose column names are distinct and whose rows      *)
(* each have one cell per column, query returns one dict per row, in the   *)
(* order of the rows, and dict i maps column j to cell j of row i; no row   *)
(* gives the empty list.                                                    *)
C12_RowZipping ==
    (/\ call.op = "query"
     /\ call.ok
     /\ Distinct(response.columns)
     /\ \A i \in 1..Len(response.rows) :
           Len(response.rows[i]) = Len(response.columns))
    => /\ Len(data) = Len(response.rows)
       /\ \A i \in 1..Len(response.rows) :
             /\ DOMAIN data[i] =
                   {response.columns[j] : j \in 1..Len(response.columns)}
             /\ \A j \in 1..Len(response.columns) :
                   data[i][response.columns[j]] = response.rows[i][j]
       /\ response.rows = <<>> => data = <<>>

\* Two rows of two columns came back.
C12_Witness ==
    /\ call.op = "query"
    /\ call.ok
    /\ response = [columns |-> <<"x", "y">>, rows |-> <<<<1, 2>>, <<2, 1>>>>]
    /\ Len(data) = 2
    /\ data[2]["x"] = 2

\* A header with the Authorization entry and no other
Pure(header) ==
    /\ Cardinality(header) = 1
    /\ Authorization(header) = header

(* C13: a cached header holds the Authorization entry "bearer <token>"     *)
(* and nothing else: the login property returns that header after any      *)
(* query, and listing requests are sent with the Authorization entry       *)
(* alone.                                                                  *)
C13_PureAuthHeader ==
    /\ _login # NoHeader => Pure(_login)
    /\ call.op = "login" /\ call.ok => Pure(call.ret)
    /\ \A i \in 1..Len(call.reqs) :
          call.reqs[i].kind = "list" => Pure(call.reqs[i].headers)

(* C14: when a listing request of tables fails, after any number of pages, *)
(* the exception leaves tables with _tables still empty; the next call of  *)
(* tables starts again at offset 0 and, when it returns, has cached the    *)
(* whole remote catalog.                                                   *)
C14_FailedListingNotCached ==
    /\ call.op = "tables" /\ call.err = "list" =>
          /\ ~call.ok
          /\ _tables = <<>>
          /\ Listing # <<>>
    /\ call.op = "tables" /\ call.pre_failed =>
          /\ ~call.pre_cached
          /\ Requests(call, "token") = <<>>
          /\ Listing # <<>>
          /\ Listing[1].offset = 0
          /\ call.ok => SameCatalog(_tables, remote)

\* tables failed at a listing request, was called again and returned the
\* 120 datasets.
C14_Witness ==
    /\ call.op = "tables"
    /\ call.pre_failed
    /\ call.ok
    /\ Len(remote) = 120
    /\ Len(_tables) = 120
    /\ Len(Listing) = 4

(* C15: query() with no id_or_name, called while _last_id_or_name is a     *)
(* table E, sends its query-execution request for the id of E and leaves   *)
(* _last_id_or_name at E, whatever the catalog holds.                      *)
C15_ImplicitDefault ==
    call.op = "query" /\ call.id_or_name = "" /\ call.pre_last # NoTable =>
        /\ Len(Requests(call, "query")) = 1
        /\ call.target = call.pre_last[1].id
        /\ _last_id_or_name = call.pre_last

(* C16: query(sql, id_or_name) with an id_or_name that no table of the     *)
(* catalog has as its name or id, called while _last_id_or_name is unset,  *)
(* ends in an exception, sends no query-execution request and leaves       *)
(* _last_id_or_name unset.                                                 *)
C16_UnresolvableFails ==
    (/\ call.op = "query"
     /\ call.id_or_name # ""
     /\ call.pre_last = NoTable
     /\ \A i \in 1..Len(_tables) : ~Hit(i, call.id_or_name))
    => /\ ~call.ok
       /\ Requests(call, "query") = <<>>
       /\ call.target = ""
       /\ _last_id_or_name = NoTable

\* The catalog was listed and holds no table named or numbered "c":
\* ""["id"] raised TypeError.
C16_Witness ==
    /\ call.op = "query"
    /\ call.id_or_name = "c"
    /\ call.pre_last = NoTable
    /\ _tables = <<Dataset("a", "b")>>
    /\ call.err = "type"
    /\ _last_id_or_name = NoTable

\* Request i of the call is a listing or a query-execution request
Authorized(i) == call.reqs[i].kind \in {"list", "query"}

(* C18: every listing request and every query-execution request comes     *)
(* after a token request of the same Connection that succeeded, in this    *)
(* call or in an earlier one, and carries the bearer token it obtained;    *)
(* an operation whose token request fails sends neither.                   *)
C18_AuthBeforeUse ==
    /\ \A i \in 1..Len(call.reqs) :
          Authorized(i) =>
              /\ issued >= 1
              /\ \/ call.pre_login # NoHeader
                 \/ \E j \in 1..(i - 1) : call.reqs[j].kind = "token"
              /\ \E n \in 0..(issued - 1) :
                    BearerHeader(Token(n)) \subseteq call.reqs[i].headers
              /\ Authorization(call.reqs[i].headers) = Authorization(_login)
    /\ call.err = "token" =>
          /\ ~call.ok
          /\ \A i \in 1..Len(call.reqs) : ~Authorized(i)

\* One query sent the token request, the listing requests and the
\* query-execution request.
C18_Witness ==
    /\ call.op = "query"
    /\ call.ok
    /\ call.pre_login = NoHeader
    /\ call.reqs[1].kind = "token"
    /\ Requests(call, "list") # <<>>
    /\ Len(Requests(call, "query")) = 1

\* Thread t is past the token request of login without an exception
PastToken(t) == threads[t].pc \in {"l59", "l60", "l83", "l92", "done"}

\* Thread t is past the loop of tables without an exception
PastLoop(t) == threads[t].pc \in {"l92", "done"}

(* C17: the memoization is not safe for threads.  Every thread that found  *)
(* _login empty at line 49 sends a token request of its own, whatever      *)
(* another thread has cached by then, so the service issues one token per  *)
(* such thread; every thread that found _tables empty at line 69 makes a   *)
(* full pagination pass of its own.                                        *)
C17_RaceDuplicates ==
    /\ issued = Cardinality({t \in Threads : threads[t].token # ""})
    /\ \A t \in Threads :
          /\ threads[t].no_login /\ PastToken(t) => threads[t].token # ""
          /\ threads[t].no_tables /\ PastLoop(t) =>
                /\ threads[t].sent = Pages(remote) + 1
                /\ SameCatalog(threads[t].datasets, remote)

\* Two threads read tables on a new Connection: both passed both tests,
\* two tokens were issued and each thread requested every page.
C17_Witness ==
    /\ issued = 2
    /\ Len(remote) = 120
    /\ \A t \in 1..2 :
          /\ threads[t].op = "tables"
          /\ threads[t].pc = "done"
          /\ threads[t].no_login
          /\ threads[t].no_tables
          /\ threads[t].sent = 4

(* C19: on a catalog that does not change, a thread that reads tables      *)
(* comes to the end of the property, or to an exception when a request     *)
(* fails; it leaves the loop at the first empty page, the one at offset    *)
(* 50 * Pages, and sends no listing request after it.                      *)
C19_PaginationTerminates ==
    /\ \A t \in Threads :
          threads[t].op = "tables" ~> threads[t].pc \in {"done", "raised"}
    /\ [](\A t \in Threads :
            threads[t].no_tables /\ PastLoop(t) =>
                /\ threads[t].offset = Pages(remote) * Limit
                /\ Page(remote, threads[t].offset, Limit) = <<>>
                /\ threads[t].sent = Pages(remote) + 1)
    /\ [][\A t \in Threads :
            PastLoop(t) => threads'[t].sent = threads[t].sent]_vars

\* A thread listed 101 datasets with four requests and left tables.
C19_Witness ==
    \E t \in Threads :
        /\ threads[t].op = "tables"
        /\ threads[t].pc = "done"
        /\ threads[t].no_tables
        /\ Len(remote) = 101
        /\ threads[t].sent = 4
        /\ threads[t].offset = 150
        /\ Len(_tables) = 101

====
